---- MODULE Spec2Model ----
(***************************************************************************)
(* A model of owmeta's translation-and-provenance code:                    *)
(*   - ContextMergeDataTranslator.translate (data_trans/context_merge.py)  *)
(*   - Document identity, construction and enrichment (document.py)        *)
(*   - the WormBase CSV translators (data_trans/wormbase.py)               *)
(* Each part has its own specification over the shared variables.          *)
(***************************************************************************)
EXTENDS Integers, Sequences, FiniteSets, TLC

VARIABLES
    abc,        \* the three input Translation Results a, b, c of the merge runs
    results,    \* per grouping: the Translation Result the merger last produced
    lastMerge,  \* the last translate call: its grouping and what it raised
    reordered,  \* history: some grouping was translated again in another order
    pc,         \* where the Document is in its life: the step of __init__ reached
    doc,        \* the Document: the defined values of each of its properties
    lastArg,    \* the constructor parameter the last step of __init__ looked at
    bibtex,     \* the bibtex parameter of __init__: whether given, and its entries
    last,       \* the last Document operation: what it did and what it raised
    csvIn,      \* the table the last CSV translation read, and its settings
    csvOut,     \* the statements in the data context of its Translation Result
    cells       \* the cells stored in the data context of a prior translation

mergeVars == <<abc, results, lastMerge, reordered>>

docVars == <<pc, doc, lastArg, bibtex, last>>

csvVars == <<csvIn, csvOut, cells>>

vars ==
    <<abc, results, lastMerge, reordered, pc, doc, lastArg, bibtex, last,
      csvIn, csvOut, cells>>

(***************************************************************************)
(* Bounds                                                                  *)
(***************************************************************************)
NumLeaves == 3      \* Translation Results that are not merge outputs

(***************************************************************************)
(* Context merger                                                          *)
(***************************************************************************)
Leaves == 1..NumLeaves

\* The groupings of a, b, c that are merged: merge(a,b), merge(b,c),
\* merge(a,b,c), merge(merge(a,b),c), merge(a,merge(b,c)) and merge().
Groupings == <<"ab", "bc", "abc", "ab_c", "a_bc", "none">>

GroupingNames == {Groupings[i] : i \in DOMAIN Groupings}

GroupingIndex(g) == CHOOSE i \in DOMAIN Groupings : Groupings[i] = g

\* The output DataSource of a merge is a new Translation Result.
OutputOf(g) == NumLeaves + GroupingIndex(g)

IsLeaf(t) == t \in Leaves

\* s.identifier, the sort key. Identifiers are opaque: the outputs of merges
\* are interleaved with the inputs, and the inputs are not in creation order.
identifier(t) ==
    IF IsLeaf(t) THEN 2 * (NumLeaves + 1 - t) ELSE 2 * (t - NumLeaves) - 1

\* src.data_context and src.evidence_context
data_context(t) == <<t, "data">>

evidence_context(t) == <<t, "evidence">>

RECURSIVE InsertSorted(_, _)
\* One step of the stable sort: x goes after every element whose key is not
\* greater than its own.
InsertSorted(x, s) ==
    IF s = <<>> THEN <<x>>
    ELSE IF identifier(x) < identifier(Head(s)) THEN <<x>> \o s
    ELSE <<Head(s)>> \o InsertSorted(x, Tail(s))

RECURSIVE MutFilterIncreasing(_)
\* A broken sort: it keeps the first element and drops every later element
\* that is out of order instead of moving it.
MutFilterIncreasing(s) ==
    IF Len(s) <= 1 THEN s
    ELSE LET rest == MutFilterIncreasing(SubSeq(s, 1, Len(s) - 1))
             x == s[Len(s)]
         IN IF identifier(x) >= identifier(rest[Len(rest)])
            THEN Append(rest, x) ELSE rest

RECURSIVE SortByIdentifier(_)
\* sorted(sources, key=lambda s: s.identifier)
SortByIdentifier(s) ==
    IF s = <<>> THEN <<>>
    ELSE InsertSorted(s[Len(s)], SortByIdentifier(SubSeq(s, 1, Len(s) - 1)))

NoResult ==
    [made |-> FALSE, args |-> <<>>, sources |-> <<>>, dimp |-> {}, eimp |-> {}]

\* self.make_new_output(sources=sources): a result with no imports yet
make_new_output(args, sorted) ==
    [made |-> TRUE, args |-> args, sources |-> sorted, dimp |-> {}, eimp |-> {}]

\* Context.add_import: the importing context refers to the other one
add_import(imports, ctx) == imports \cup {ctx}

MutImportFirstOnly(res, sorted) ==
    [res EXCEPT !.dimp = add_import(@, data_context(sorted[1])),
                !.eimp = add_import(@, evidence_context(sorted[1]))]

RECURSIVE ImportAll(_, _)
\* for src in sources: add_import for the data and the evidence context
ImportAll(res, sorted) ==
    IF sorted = <<>> THEN res
    ELSE ImportAll(
            [res EXCEPT !.dimp = add_import(@, data_context(Head(sorted))),
                        !.eimp = add_import(@, evidence_context(Head(sorted)))],
            Tail(sorted))

MutNoSourcesCheck(srcs) == FALSE

\* if not sources: raise Exception("No sources were provided")
NoSources(srcs) == srcs = <<>>

\* ContextMergeDataTranslator.translate(*srcs), its result kept under g
translate(g, srcs) ==
    IF NoSources(srcs)
    THEN /\ lastMerge' = [slot |-> g, err |-> "Exception"]
         /\ UNCHANGED <<abc, results, reordered>>
         /\ UNCHANGED <<docVars, csvVars>>
    ELSE LET sorted == SortByIdentifier(srcs)
             res == ImportAll(make_new_output(srcs, sorted), sorted)
         IN /\ results' = [results EXCEPT ![g] = res]
            /\ lastMerge' = [slot |-> g, err |-> "none"]
            /\ reordered' = (reordered \/ (results[g].made /\ results[g].args # srcs))
            /\ UNCHANGED abc
            /\ UNCHANGED <<docVars, csvVars>>

\* The sources of each grouping, in the order the grouping is written.
ArgsOf(g) ==
    CASE g = "ab" -> <<abc[1], abc[2]>>
      [] g = "bc" -> <<abc[2], abc[3]>>
      [] g = "abc" -> <<abc[1], abc[2], abc[3]>>
      [] g = "ab_c" -> <<OutputOf("ab"), abc[3]>>
      [] g = "a_bc" -> <<abc[1], OutputOf("bc")>>
      [] OTHER -> <<>>

\* A merge of merge results needs them to exist.
Ready(g) ==
    CASE g = "ab_c" -> results["ab"].made
      [] g = "a_bc" -> results["bc"].made
      [] OTHER -> TRUE

Orders(s) ==
    {p \in [DOMAIN s -> DOMAIN s] : \A i, j \in DOMAIN s : i # j => p[i] # p[j]}

Reorder(s, p) == [i \in DOMAIN s |-> s[p[i]]]

\* A call site passes the sources of a grouping in any order.
Merge ==
    \E g \in GroupingNames :
        /\ Ready(g)
        /\ \E p \in Orders(ArgsOf(g)) : translate(g, Reorder(ArgsOf(g), p))

(***************************************************************************)
(* Document: properties, identity, construction                            *)
(***************************************************************************)
\* The strings a property holds: a bare id, or a URL the constructor kept.
Vals == {"v1", "v2"}

Lit(v) == [form |-> "id", v |-> v]

NoParam == [form |-> "none", v |-> "v1"]

\* A property's defined_values, in the order they were set.
EmptyDoc ==
    [author |-> <<>>, doi |-> <<>>, uri |-> <<>>, wbid |-> <<>>,
     pmid |-> <<>>, year |-> <<>>, title |-> <<>>]

\* DatatypeProperty(multiple=True): author and uri
Multiple == {"author", "uri"}

has_defined_value(d, f) == d[f] # <<>>

\* Property.clear
clear(d, f) == [d EXCEPT ![f] = <<>>]

\* Property.set: a multi-valued property gains a value, any other holds the
\* new value alone.
set(d, f, v) ==
    IF f \in Multiple THEN [d EXCEPT ![f] = Append(@, v)]
    ELSE [d EXCEPT ![f] = <<v>>]

RECURSIVE SetAll(_, _, _)
SetAll(d, f, vs) ==
    IF vs = <<>> THEN d ELSE SetAll(set(d, f, Head(vs)), f, Tail(vs))

\* self.id_precedence
id_precedence == <<"doi", "pmid", "wbid", "uri">>

MutDefinedIgnoresUri(d) ==
    \E i \in 1..3 : has_defined_value(d, id_precedence[i])

\* Document.defined_augment
defined_augment(d) ==
    \E i \in DOMAIN id_precedence : has_defined_value(d, id_precedence[i])

\* idprop.defined_values[0].identifier.n3(): the literal's quoted form
n3(val) == <<"literal", val.form, val.v>>

\* self.make_identifier(s)
make_identifier(s) == [ok |-> TRUE, of |-> s]

IdentifierMissingException == [ok |-> FALSE, of |-> <<>>]

RECURSIVE MutIdentifierLastDefined(_, _)
\* The loop keeps going and the last defined kind wins.
MutIdentifierLastDefined(d, i) ==
    IF i > Len(id_precedence) THEN IdentifierMissingException
    ELSE LET later == MutIdentifierLastDefined(d, i + 1)
             idKind == id_precedence[i]
         IN IF later.ok THEN later
            ELSE IF has_defined_value(d, idKind)
            THEN make_identifier(<<idKind, ":">> \o n3(d[idKind][1]))
            ELSE IdentifierMissingException

RECURSIVE identifier_from(_, _)
\* The loop of identifier_augment from the i-th kind of id_precedence on.
identifier_from(d, i) ==
    IF i > Len(id_precedence) THEN IdentifierMissingException
    ELSE LET idKind == id_precedence[i]
         IN IF has_defined_value(d, idKind)
            THEN make_identifier(<<idKind, ":">> \o n3(d[idKind][1]))
            ELSE identifier_from(d, i + 1)

\* Document.identifier_augment
identifier_augment(d) == identifier_from(d, 1)

\* ---- __init__ ----------------------------------------------------------
NoCall ==
    [op |-> "none", raised |-> "none", failure |-> FALSE, replace |-> FALSE,
     net |-> 0]

Call(op) == [NoCall EXCEPT !.op = op]

\* What **kwargs can give a key property: nothing, a value, or two values.
KeySeqs == {<<>>, <<Lit("v1")>>, <<Lit("v2")>>, <<Lit("v1"), Lit("v2")>>}

OneOrNone == {<<>>, <<Lit("v1")>>}

Kwargs ==
    [author : OneOrNone, uri : KeySeqs, wbid : KeySeqs, pmid : KeySeqs,
     year : OneOrNone, title : OneOrNone]

\* super(Document, self).__init__(**kwargs); self.id_precedence = ...
InitKwargs ==
    /\ pc = "new"
    /\ \E kw \in Kwargs :
          doc' = [EmptyDoc EXCEPT !.author = kw.author, !.uri = kw.uri,
                                  !.wbid = kw.wbid, !.pmid = kw.pmid,
                                  !.year = kw.year, !.title = kw.title]
    /\ pc' = "bibtex"
    /\ last' = Call("__init__")
    /\ UNCHANGED <<lastArg, bibtex>>
    /\ UNCHANGED <<mergeVars, csvVars>>

\* A bibliographic-text blob: how many entries it has, and the fields of the
\* first one.
NoEntry == [author |-> <<>>, title |-> <<>>, year |-> <<>>, doi |-> <<>>]

Entries ==
    [author : {<<>>, <<Lit("v2")>>}, title : {<<>>, <<Lit("v2")>>},
     year : {<<>>, <<Lit("v2")>>}, doi : {<<>>, <<Lit("v1")>>, <<Lit("v2")>>}]

MaxEntries == 2

\* bibtex=None
NoBlob == [given |-> FALSE, n |-> 0]

Blobs ==
    {[given |-> FALSE, n |-> 0, entry |-> NoEntry]}
    \cup {[given |-> TRUE, n |-> n, entry |-> NoEntry] : n \in (0..MaxEntries) \ {1}}
    \cup {[given |-> TRUE, n |-> 1, entry |-> e] : e \in Entries}

\* BIB.update_document_with_bibtex: the entry's author, title, year and doi
\* are set on the document.
update_document_with_bibtex(d, e) ==
    LET d1 == SetAll(d, "author", e.author)
        d2 == SetAll(d1, "title", e.title)
        d3 == SetAll(d2, "year", e.year)
    IN SetAll(d3, "doi", e.doi)

\* if bibtex is not None: self.update_with_bibtex(bibtex)
ApplyBibtex ==
    /\ pc = "bibtex"
    /\ \E b \in Blobs :
          /\ bibtex' = [given |-> b.given, n |-> b.n]
          /\ IF ~b.given
             THEN pc' = "pubmed" /\ UNCHANGED <<doc, last>>
             ELSE IF b.n > 1
             THEN /\ pc' = "failed"
                  /\ last' = [last EXCEPT !.raised = "ValueError"]
                  /\ UNCHANGED doc
             ELSE IF b.n = 0
             THEN /\ pc' = "failed"
                  /\ last' = [last EXCEPT !.raised = "IndexError"]
                  /\ UNCHANGED doc
             ELSE /\ pc' = "pubmed"
                  /\ doc' = update_document_with_bibtex(doc, b.entry)
                  /\ UNCHANGED last
    /\ UNCHANGED lastArg
    /\ UNCHANGED <<mergeVars, csvVars>>

\* The pubmed and wormbase parameters: an id, a URL whose third path segment
\* is the id, or a URL with a shorter path.
IdParams ==
    {NoParam} \cup {[form |-> f, v |-> v] : f \in {"id", "url"}, v \in Vals}
    \cup {[form |-> "shorturl", v |-> "v1"]}

\* The doi parameter: an id, a URL at a doi.org host, or another URL.
DoiParams ==
    {NoParam}
    \cup {[form |-> f, v |-> v] : f \in {"id", "doiurl", "otherurl"}, v \in Vals}

\* param[:4] == 'http'
IsHttp(param) == param.form \in {"url", "shorturl", "doiurl", "otherurl"}

\* _pubmed_uri_to_pmid, _wormbase_uri_to_wbid:
\* str(urlparse(uri).path.split("/")[2])
uri_to_id(param) ==
    IF param.form = "shorturl" THEN [ok |-> FALSE, val |-> param]
    ELSE [ok |-> TRUE, val |-> Lit(param.v)]

\* _doi_uri_to_doi: the path after the host when the host is a doi.org one
doi_uri_to_doi(param) ==
    IF param.form = "doiurl" THEN [some |-> TRUE, val |-> Lit(param.v)]
    ELSE [some |-> FALSE, val |-> param]

MutUnguarded(d, f) == TRUE

\* "and not self.pmid.has_defined_value()", and the same for wbid
NotAlreadySet(d, f) == ~has_defined_value(d, f)

\* The pubmed and the wormbase parameter are handled alike.
ApplyIdParam(f, next) ==
    \E param \in IdParams :
        /\ lastArg' = param
        /\ IF param # NoParam /\ NotAlreadySet(doc, f)
           THEN IF IsHttp(param) /\ ~uri_to_id(param).ok
                THEN /\ pc' = "failed"
                     /\ last' = [last EXCEPT !.raised = "IndexError"]
                     /\ UNCHANGED doc
                ELSE /\ doc' = set(doc, f, IF IsHttp(param)
                                           THEN uri_to_id(param).val
                                           ELSE Lit(param.v))
                     /\ pc' = next
                     /\ UNCHANGED last
           ELSE pc' = next /\ UNCHANGED <<doc, last>>

\* if pubmed is not None and not self.pmid.has_defined_value(): ...
ApplyPubmed ==
    /\ pc = "pubmed" /\ ApplyIdParam("pmid", "wormbase")
    /\ UNCHANGED <<bibtex, mergeVars, csvVars>>

\* if wormbase is not None and not self.wbid.has_defined_value(): ...
ApplyWormbase ==
    /\ pc = "wormbase" /\ ApplyIdParam("wbid", "doi")
    /\ UNCHANGED <<bibtex, mergeVars, csvVars>>

\* if doi is not None: ... self.doi.set(doi)
ApplyDoi ==
    /\ pc = "doi"
    /\ \E param \in DoiParams :
          /\ lastArg' = param
          /\ IF param # NoParam
             THEN doc' = set(doc, "doi",
                             IF IsHttp(param) /\ doi_uri_to_doi(param).some
                             THEN doi_uri_to_doi(param).val
                             ELSE [form |-> param.form, v |-> param.v])
             ELSE UNCHANGED doc
    /\ pc' = "ready"
    /\ UNCHANGED <<last, bibtex>>
    /\ UNCHANGED <<mergeVars, csvVars>>

(***************************************************************************)
(* Document: enrichment from WormBase, PubMed and CrossRef                 *)
(***************************************************************************)
MaxAuthors == 2     \* authors a Document holds at most

\* What the lookups return for a field.
RespVals == {"v2"}

\* f['authors']: absent, or its 'data' is null or a list of items, each with
\* a 'label' or without one.
WbAuthors ==
    {[kind |-> k, items |-> <<>>] : k \in {"absent", "null"}}
    \cup {[kind |-> "list", items |-> <<v>>] : v \in RespVals \cup {"nolabel"}}
    \cup {[kind |-> "list", items |-> <<v, "nolabel">>] : v \in RespVals}

\* The scalar fields update_from_wormbase reads, in its order.
WbFieldNames == <<"pmid", "year", "title", "doi">>

Absent == [kind |-> "absent", v |-> "v2"]

\* f[fname]: absent, without a 'data' key, or its 'data' is null or a value.
WbFieldOpts ==
    {[kind |-> k, v |-> "v2"] : k \in {"null", "nodata"}}
    \cup {[kind |-> "value", v |-> v] : v \in RespVals}

AllAbsent == [f \in {"pmid", "year", "title", "doi"} |-> Absent]

\* The overviews looked at have at most one scalar field.
WbFields ==
    {AllAbsent}
    \cup {[AllAbsent EXCEPT ![f] = o] : f \in DOMAIN AllAbsent, o \in WbFieldOpts}

\* _json_request's answer: {} after any failure, a map without 'fields', or
\* a map with them.
WbResponses ==
    {[kind |-> k, authors |-> [kind |-> "absent", items |-> <<>>],
      fields |-> AllAbsent] : k \in {"failed", "nofields"}}
    \cup {[kind |-> "fields", authors |-> a, fields |-> f] :
            a \in WbAuthors, f \in WbFields}

\* if replace_existing and attr.has_defined_value: attr.clear()
\* (has_defined_value is not called there: the bound method is always true)
ClearIfReplacing(d, f, replace_existing) ==
    IF replace_existing THEN clear(d, f) ELSE d

RECURSIVE SetLabels(_, _)
\* for x in dat: self.author.set(x['label']); an item without a label raises
SetLabels(d, items) ==
    IF items = <<>> THEN [doc |-> d, failed |-> FALSE]
    ELSE IF Head(items) = "nolabel" THEN [doc |-> d, failed |-> TRUE]
    ELSE SetLabels(set(d, "author", Lit(Head(items))), Tail(items))

RECURSIVE SetFields(_, _, _, _)
\* for fname in ('pmid', 'year', 'title', 'doi'): ... attr.set(f[fname]['data'])
SetFields(d, fields, i, replace_existing) ==
    IF i > Len(WbFieldNames) THEN [doc |-> d, failed |-> FALSE]
    ELSE LET fname == WbFieldNames[i]
             fld == fields[fname]
         IN IF fld.kind = "absent" \/ fld.kind = "null"
            THEN SetFields(d, fields, i + 1, replace_existing)
            ELSE IF fld.kind = "nodata" THEN [doc |-> d, failed |-> TRUE]
            ELSE SetFields(
                    set(ClearIfReplacing(d, fname, replace_existing),
                        fname, Lit(fld.v)),
                    fields, i + 1, replace_existing)

\* The body of the try block of update_from_wormbase. An exception leaves what
\* was set before it and skips the rest.
WbApply(d, resp, replace_existing) ==
    IF resp.kind # "fields" THEN [doc |-> d, failed |-> resp.kind = "failed"]
    ELSE LET a == IF resp.authors.kind = "list"
                  THEN SetLabels(ClearIfReplacing(d, "author", replace_existing),
                                 resp.authors.items)
                  ELSE [doc |-> d, failed |-> FALSE]
         IN IF a.failed THEN a
            ELSE SetFields(a.doc, resp.fields, 1, replace_existing)

MutExactlyOneAny(values) == Len(values) >= 1

\* len(self.wbid.defined_values) == 1, and the same test on pmid
ExactlyOne(values) == Len(values) = 1

\* Document.update_from_wormbase(replace_existing)
update_from_wormbase ==
    /\ pc = "ready"
    /\ \E replace_existing \in BOOLEAN :
          IF ExactlyOne(doc.wbid)
          THEN \E resp \in WbResponses :
                  LET out == WbApply(doc, resp, replace_existing)
                  IN /\ Len(out.doc.author) <= MaxAuthors
                     /\ doc' = out.doc
                     /\ last' = [op |-> "update_from_wormbase",
                                 raised |-> "none", failure |-> out.failed,
                                 replace |-> replace_existing, net |-> 1]
          ELSE /\ last' = [op |-> "update_from_wormbase",
                           raised |-> IF Len(doc.wbid) = 0
                                      THEN "WormbaseRetrievalException: no ID"
                                      ELSE "WormbaseRetrievalException: more than one ID",
                           failure |-> FALSE,
                           replace |-> replace_existing, net |-> 0]
               /\ UNCHANGED doc
    /\ UNCHANGED <<pc, lastArg, bibtex>>
    /\ UNCHANGED <<mergeVars, csvVars>>

\* pmRequest's answer: a failure of the request or of the parse, or a tree
\* with its AuthorList, Title, DOI and PubDate items.
PmResponses ==
    {[kind |-> "failed", author |-> <<>>, title |-> <<>>, doi |-> <<>>,
      year |-> <<>>]}
    \cup [kind : {"tree"}, author : {<<>>, <<Lit("v2")>>},
          title : {<<>>, <<Lit("v2")>>}, doi : {<<>>, <<Lit("v2")>>},
          year : {<<>>, <<Lit("v2")>>}]

\* The four loops after the request of update_from_pubmed.
PmApply(d, tree) ==
    LET d1 == SetAll(d, "author", tree.author)
        d2 == SetAll(d1, "title", tree.title)
        d3 == SetAll(d2, "doi", tree.doi)
    IN SetAll(d3, "year", tree.year)

\* Document.update_from_pubmed()
update_from_pubmed ==
    /\ pc = "ready"
    /\ IF ExactlyOne(doc.pmid)
       THEN \E resp \in PmResponses :
               LET out == IF resp.kind = "failed" THEN doc
                          ELSE PmApply(doc, resp)
               IN /\ Len(out.author) <= MaxAuthors
                  /\ doc' = out
                  /\ last' = [op |-> "update_from_pubmed", raised |-> "none",
                              failure |-> resp.kind = "failed",
                              replace |-> FALSE, net |-> 1]
       ELSE /\ last' = [op |-> "update_from_pubmed",
                        raised |-> IF Len(doc.pmid) = 0
                                   THEN "PubmedRetrievalException: no ID"
                                   ELSE "PubmedRetrievalException: more than one ID",
                        failure |-> FALSE, replace |-> FALSE, net |-> 0]
            /\ UNCHANGED doc
    /\ UNCHANGED <<pc, lastArg, bibtex>>
    /\ UNCHANGED <<mergeVars, csvVars>>

\* crRequest's answer: {} after any failure, an empty list, or a list whose
\* first element has a 'coins' blob or lacks it, and maybe a title and a year.
CrResponses ==
    {[kind |-> k, author |-> <<>>, title |-> <<>>, year |-> <<>>] :
        k \in {"failed", "empty", "nocoins"}}
    \cup [kind : {"entry"}, author : {<<>>, <<Lit("v2")>>},
          title : {<<>>, <<Lit("v2")>>}, year : {<<>>, <<Lit("v2")>>}]

\* if len(r) > 0: the rft.au pairs of the blob, then title and year
CrApply(d, r) ==
    LET d1 == SetAll(d, "author", r.author)
        d2 == SetAll(d1, "title", r.title)
    IN SetAll(d2, "year", r.year)

\* Document._crossref_doi_extract()
crossref_doi_extract ==
    /\ pc = "ready"
    /\ IF ~has_defined_value(doc, "doi")
       THEN \* doi = self.doi() is None, and doi[:4] raises
            /\ last' = [op |-> "_crossref_doi_extract", raised |-> "TypeError",
                        failure |-> FALSE, replace |-> FALSE, net |-> 0]
            /\ UNCHANGED doc
       ELSE \E resp \in CrResponses :
               IF resp.kind = "nocoins"
               THEN \* r[0]['coins'] raises outside any try block
                    /\ last' = [op |-> "_crossref_doi_extract",
                                raised |-> "KeyError", failure |-> TRUE,
                                replace |-> FALSE, net |-> 1]
                    /\ UNCHANGED doc
               ELSE LET out == IF resp.kind = "entry" THEN CrApply(doc, resp)
                               ELSE doc
                    IN /\ Len(out.author) <= MaxAuthors
                       /\ doc' = out
                       /\ last' = [op |-> "_crossref_doi_extract",
                                   raised |-> "none",
                                   failure |-> resp.kind = "failed",
                                   replace |-> FALSE, net |-> 1]
    /\ UNCHANGED <<pc, lastArg, bibtex>>
    /\ UNCHANGED <<mergeVars, csvVars>>

(***************************************************************************)
(* WormBase CSV translators                                                *)
(***************************************************************************)
MaxRows == 1        \* data rows of a table

\* Each run is one translate call: it fills the data context of a new
\* Translation Result from one table.

\* What a membership-marker cell holds.
Markers == {"", "0", "1", "2"}

CellNames == {"vb01", "VB1"}

\* normalize_cell_name: the zero padding of a cell's number is dropped.
normalize_cell_name(name) == IF name = "vb01" THEN "vb1" ELSE name

\* str.upper
upper(name) == IF name = "vb1" THEN "VB1" ELSE name

\* The columns of a WormBase cell table row that the translators read:
\* the cell name, the neuron marker and the three muscle markers.
WormBaseRows ==
    {[c \in {0, 5, 7, 8, 9} |->
        IF c = 0 THEN name ELSE IF c = 5 THEN m[1] ELSE m[c - 5]] :
        name \in CellNames, m \in [1..4 -> Markers]}

Tables(rowSet) == UNION {[1..n -> rowSet] : n \in 0..MaxRows}

\* A non-empty string is true.
Truthy(str) == str # ""

\* if line[7] or line[8] or line[9] == '1':
MuscleMarked(line) == Truthy(line[7]) \/ Truthy(line[8]) \/ line[9] = "1"

\* MuscleWormBaseCSVTranslator.translate
MuscleTranslate ==
    /\ csvIn.translator = "none"
    /\ \E rows \in Tables(WormBaseRows) :
        /\ csvIn' = [translator |-> "Muscle", rows |-> rows, initcol |-> 0]
        /\ csvOut' = {<<"Muscle", upper(normalize_cell_name(rows[i][0])), "">> :
                        i \in {j \in DOMAIN rows : MuscleMarked(rows[j])}}
        /\ UNCHANGED <<cells, mergeVars, docVars>>

\* if line[5] == '1':
NeuronMarked(line) == line[5] = "1"

\* NeuronWormBaseCSVTranslator.translate
NeuronTranslate ==
    /\ csvIn.translator = "none"
    /\ \E rows \in Tables(WormBaseRows) :
        /\ csvIn' = [translator |-> "Neuron", rows |-> rows, initcol |-> 0]
        /\ csvOut' = {<<"Neuron", upper(normalize_cell_name(rows[i][0])), "">> :
                        i \in {j \in DOMAIN rows : NeuronMarked(rows[j])}}
        /\ UNCHANGED <<cells, mergeVars, docVars>>

\* The text-match table: leading lines, a header row of cell names, data
\* rows of a channel name and one marker per cell column.
SkippedLines == 3

LeadingLine == [c \in 0..2 |-> IF c = 0 THEN "lead" ELSE "1"]

HeaderRow ==
    [c \in 0..2 |-> IF c = 0 THEN "Channel" ELSE IF c = 1 THEN "ADAL" ELSE "AVAR"]

TextMatchRows ==
    {[c \in 0..2 |-> IF c = 0 THEN "unc-1" ELSE m[c]] : m \in [1..2 -> Markers]}

MaxTextRows == 2    \* data rows of a text-match file

\* A file is cut off anywhere: within the leading lines, after them, or
\* after some of its data rows.
TextMatchFiles ==
    {[i \in 1..n |-> IF i <= SkippedLines THEN LeadingLine ELSE HeaderRow] :
        n \in 0..(SkippedLines + 1)}
    \cup {[i \in 1..(SkippedLines + 1 + Len(t)) |->
            IF i <= SkippedLines THEN LeadingLine
            ELSE IF i = SkippedLines + 1 THEN HeaderRow
            ELSE t[i - SkippedLines - 1]] :
                t \in UNION {[1..n -> TextMatchRows] : n \in 0..MaxTextRows}}

\* the header is taken to be the first row
MutHeaderIsFirstRow(file) == IF Len(file) >= 1 THEN 1 ELSE 0

\* WormbaseTextMatchCSVTranslator.skip_to_header: the place of the header
\* row in the file, 0 when the rows run out before it.
skip_to_header(file) ==
    IF Len(file) >= SkippedLines + 1 THEN SkippedLines + 1 ELSE 0

\* if cols > initial_cell_column:
PastInitialColumn(cols, initial_cell_column) == cols > initial_cell_column

\* WormbaseTextMatchCSVTranslator.extract_cell_names
extract_cell_names(header, initial_cell_column, row) ==
    {header[cols] : cols \in {c \in DOMAIN row :
        /\ PastInitialColumn(c, initial_cell_column)
        /\ (row[c] = "1" \/ row[c] = "2")}}

\* WormbaseTextMatchCSVTranslator.translate
TextMatchTranslate ==
    /\ csvIn.translator = "none"
    /\ \E file \in TextMatchFiles, initcol \in 0..1 :
        LET h == skip_to_header(file)
            data == IF h = 0 THEN {} ELSE (h + 1)..Len(file)
        IN /\ csvIn' = [translator |-> "TextMatch", rows |-> file,
                        initcol |-> initcol]
           /\ csvOut' =
                {<<"Channel", file[i][0], "">> : i \in data}
                \cup UNION {{<<"appearsIn", file[i][0], cell>> :
                               cell \in extract_cell_names(file[h], initcol, file[i])} :
                            i \in data}
           /\ UNCHANGED <<cells, mergeVars, docVars>>

\* The records csvreader yields to WormbaseIDSetter: a cell name and a
\* WormBase ID.
IdRows == [Cell : CellNames, WormBaseID : {"WBGene1", "WBGene2"}]

MaxIdRows == 3      \* records of an ID table

IdTables == UNION {[1..n -> IdRows] : n \in 0..MaxIdRows}

\* The Cell objects a prior translation can have stored; two of them have
\* the same name.
StoredCells == {"Muscle:VB1", "Neuron:VB1", "Neuron:vb1"}

CellName(c) == IF c = "Neuron:vb1" THEN "vb1" ELSE "VB1"

\* only one of the matching cells is loaded
MutFirstMatchOnly(context, cell_name) ==
    LET found == {c \in context : CellName(c) = cell_name}
    IN IF found = {} THEN {} ELSE {CHOOSE c \in found : TRUE}

\* cells_source.data_context.stored(Cell).query(name=cell_name).load()
LoadCells(context, cell_name) == {c \in context : CellName(c) = cell_name}

\* if num < 1: continue
Processed(rows) == {i \in DOMAIN rows : ~(i - 1 < 1)}

\* WormbaseIDSetter.translate
IDSetterTranslate ==
    /\ csvIn.translator = "none"
    /\ \E rows \in IdTables :
        /\ csvIn' = [translator |-> "IDSetter", rows |-> rows, initcol |-> 0]
        /\ csvOut' =
             UNION {{<<"wormbaseID", loaded_cell, rows[i].WormBaseID>> :
                       loaded_cell \in
                         LoadCells(cells, normalize_cell_name(rows[i].Cell))} :
                    i \in Processed(rows)}
        /\ UNCHANGED <<cells, mergeVars, docVars>>

(***************************************************************************)
(* Specifications                                                          *)
(***************************************************************************)
NoMerge ==
    /\ abc = [i \in 1..3 |-> 1]
    /\ results = [g \in GroupingNames |-> NoResult]
    /\ lastMerge = [slot |-> "none", err |-> "none"]
    /\ reordered = FALSE

NoTable ==
    /\ csvIn = [translator |-> "none", rows |-> <<>>, initcol |-> 0]
    /\ csvOut = {}
    /\ cells = {}

NoDocument ==
    /\ pc = "new"
    /\ doc = EmptyDoc
    /\ lastArg = NoParam
    /\ bibtex = NoBlob
    /\ last = NoCall

InitMerge ==
    /\ abc \in [1..3 -> Leaves]
    /\ results = [g \in GroupingNames |-> NoResult]
    /\ lastMerge = [slot |-> "none", err |-> "none"]
    /\ reordered = FALSE
    /\ NoDocument
    /\ NoTable

NextMerge == Merge

SpecMerge == InitMerge /\ [][NextMerge]_vars

InitDoc == NoDocument /\ NoMerge /\ NoTable

NextDoc ==
    \/ InitKwargs
    \/ ApplyBibtex
    \/ ApplyPubmed
    \/ ApplyWormbase
    \/ ApplyDoi

SpecDoc == InitDoc /\ [][NextDoc]_vars

\* A constructed Document: any of the values **kwargs and the constructor
\* parameters can give it.
InitEnrich ==
    /\ pc = "ready"
    /\ doc \in [author : OneOrNone, doi : OneOrNone, uri : {<<>>},
                wbid : KeySeqs \ {<<Lit("v2")>>}, pmid : KeySeqs \ {<<Lit("v2")>>},
                year : OneOrNone, title : OneOrNone]
    /\ lastArg = NoParam
    /\ bibtex = NoBlob
    /\ last = NoCall
    /\ NoMerge
    /\ NoTable

NextEnrich ==
    \/ update_from_wormbase
    \/ update_from_pubmed
    \/ crossref_doi_extract

SpecEnrich == InitEnrich /\ [][NextEnrich]_vars

InitCsv == NoTable /\ NoMerge /\ NoDocument

NextCsv ==
    \/ MuscleTranslate
    \/ NeuronTranslate
    \/ TextMatchTranslate

SpecCsv == InitCsv /\ [][NextCsv]_vars

InitTextMatch == InitCsv

NextTextMatch == TextMatchTranslate

SpecTextMatch == InitTextMatch /\ [][NextTextMatch]_vars

InitIDSetter ==
    /\ csvIn = [translator |-> "none", rows |-> <<>>, initcol |-> 0]
    /\ csvOut = {}
    /\ cells \in SUBSET StoredCells
    /\ NoMerge
    /\ NoDocument

NextIDSetter == IDSetterTranslate

SpecIDSetter == InitIDSetter /\ [][NextIDSetter]_vars

(***************************************************************************)
(* Claims about Document identity and construction                         *)
(***************************************************************************)
KeyKinds == {id_precedence[i] : i \in DOMAIN id_precedence}

SomeKeyDefined(d) == \E f \in KeyKinds : d[f] # <<>>

\* The place in id_precedence of the first kind with a defined value.
FirstDefined(d) ==
    CHOOSE i \in DOMAIN id_precedence :
        /\ d[id_precedence[i]] # <<>>
        /\ \A j \in 1..(i - 1) : d[id_precedence[j]] = <<>>

\* The properties that the identifier must not depend on: the kinds after
\* the first defined one, and author, title and year.
Irrelevant(d) ==
    {id_precedence[j] : j \in (FirstDefined(d) + 1)..Len(id_precedence)}
    \cup {"author", "title", "year"}

\* C4: with a key defined, the identifier is made of the name and the value
\* of the first defined kind in (doi, pmid, wbid, uri), and a Document that
\* differs in a later kind or in author, title or year has the same one.
C4_IdentifierByPrecedence ==
    SomeKeyDefined(doc)
    => LET kind == id_precedence[FirstDefined(doc)]
       IN /\ identifier_augment(doc)
               = make_identifier(<<kind, ":">> \o n3(doc[kind][1]))
          /\ \A f \in Irrelevant(doc) : \A other \in KeySeqs :
                identifier_augment([doc EXCEPT ![f] = other])
                    = identifier_augment(doc)

\* doi, pmid and wbid are all set and the identifier is the DOI's
C4_Witness ==
    /\ pc = "ready"
    /\ doc.doi # <<>> /\ doc.pmid # <<>> /\ doc.wbid # <<>>
    /\ doc.doi[1] # doc.pmid[1]
    /\ identifier_augment(doc).of[1] = "doi"

\* C5: is_defined() holds exactly when one of doi, pmid, wbid, uri has a
\* defined value, and identifier() raises IdentifierMissingException exactly
\* when is_defined() does not hold.
C5_DefinedIffIdentifier ==
    /\ defined_augment(doc) <=> SomeKeyDefined(doc)
    /\ (identifier_augment(doc) = IdentifierMissingException)
           <=> ~defined_augment(doc)

\* a Document with a title and no key, and one whose only key is a uri
C5_Witness ==
    /\ pc = "ready"
    /\ \/ /\ doc.title # <<>>
          /\ ~defined_augment(doc)
          /\ identifier_augment(doc) = IdentifierMissingException
       \/ /\ doc.uri # <<>>
          /\ doc.doi = <<>> /\ doc.pmid = <<>> /\ doc.wbid = <<>>
          /\ defined_augment(doc)

CanonicalOf(step) ==
    CASE step = "pubmed" -> "pmid"
      [] step = "wormbase" -> "wbid"
      [] OTHER -> "doi"

\* C9 as stated: each of pubmed, wormbase and doi leaves its canonical
\* property alone when that property already has a value.
C9_AllThreeGuarded ==
    [][(pc \in {"pubmed", "wormbase", "doi"}
        /\ has_defined_value(doc, CanonicalOf(pc)))
       => doc'[CanonicalOf(pc)] = doc[CanonicalOf(pc)]]_vars

\* What the doi parameter is stored as: the id after a doi.org host, any
\* other value as it was given.
DoiStored(param) ==
    IF param.form = "doiurl" THEN Lit(param.v)
    ELSE [form |-> param.form, v |-> param.v]

\* C9, amended: pubmed and wormbase leave pmid and wbid alone when those
\* already have a value; a given doi parameter is always applied and replaces
\* a doi that the bibliographic text populated.
C9_OnlyIdsGuarded ==
    [][/\ (pc \in {"pubmed", "wormbase"}
           /\ has_defined_value(doc, CanonicalOf(pc)))
          => doc'[CanonicalOf(pc)] = doc[CanonicalOf(pc)]
       /\ (pc = "doi" /\ pc' = "ready")
          => doc'.doi = IF lastArg' = NoParam THEN doc.doi
                        ELSE <<DoiStored(lastArg')>>]_vars

\* pubmed was given as another id than the pmid already set, and ignored
C9_Witness ==
    /\ pc = "wormbase"
    /\ lastArg = [form |-> "id", v |-> "v2"]
    /\ doc.pmid = <<Lit("v1")>>

\* C11: construction from a bibliographic-text blob gets past the blob
\* exactly when the blob has one entry; with any other number of entries it
\* fails with the entry-count error (ValueError) and the blob populates no
\* field.
C11_ExactlyOneEntry ==
    [][(pc = "bibtex" /\ bibtex'.given)
       => /\ bibtex'.n = 1 <=> pc' = "pubmed"
          /\ bibtex'.n # 1 => (last'.raised = "ValueError" /\ doc' = doc)]_vars

(***************************************************************************)
(* Claims about enrichment                                                 *)
(***************************************************************************)
\* C6: update_from_wormbase and update_from_pubmed look their key up only
\* when it has exactly one defined value; with none they raise the retrieval
\* error for a missing ID, with more than one the error for several IDs, and
\* then no network call has been made.
C6_ExactlyOneKey ==
    [][/\ last'.op = "update_from_wormbase"
          => /\ Len(doc.wbid) = 1 => (last'.raised = "none" /\ last'.net = 1)
             /\ Len(doc.wbid) = 0
                => (/\ last'.raised = "WormbaseRetrievalException: no ID"
                    /\ last'.net = 0)
             /\ Len(doc.wbid) > 1
                => (/\ last'.raised = "WormbaseRetrievalException: more than one ID"
                    /\ last'.net = 0)
       /\ last'.op = "update_from_pubmed"
          => /\ Len(doc.pmid) = 1 => (last'.raised = "none" /\ last'.net = 1)
             /\ Len(doc.pmid) = 0
                => (/\ last'.raised = "PubmedRetrievalException: no ID"
                    /\ last'.net = 0)
             /\ Len(doc.pmid) > 1
                => (/\ last'.raised = "PubmedRetrievalException: more than one ID"
                    /\ last'.net = 0)]_vars

\* update_from_wormbase was called on a Document with two WormBase IDs
C6_Witness ==
    /\ last.op = "update_from_wormbase"
    /\ Len(doc.wbid) = 2
    /\ last.raised = "WormbaseRetrievalException: more than one ID"
    /\ last.net = 0

\* C7: a lookup that fails, at the request or while its answer is processed,
\* raises nothing and leaves every field of the Document as it was.
C7_FailureIsNoOp ==
    [][last'.failure => (last'.raised = "none" /\ doc' = doc)]_vars

IsPrefix(s, t) == Len(s) <= Len(t) /\ SubSeq(t, 1, Len(s)) = s

\* C8: update_from_wormbase(replace_existing=False) keeps every value that
\* pmid, year, title and doi had, and every author, whatever the lookup
\* returns.
C8_KeepsExistingValues ==
    [][(last'.op = "update_from_wormbase" /\ ~last'.replace)
       => /\ \A f \in {"pmid", "year", "title", "doi"} :
                has_defined_value(doc, f) => doc'[f] = doc[f]
          /\ IsPrefix(doc.author, doc'.author)]_vars

\* C12: once a Document has an identifier, no enrichment call changes it,
\* whatever the lookup returns.
C12_IdentityStable ==
    [][(defined_augment(doc)
        /\ last'.op \in {"update_from_wormbase", "update_from_pubmed",
                         "_crossref_doi_extract"})
       => identifier_augment(doc') = identifier_augment(doc)]_vars

(***************************************************************************)
(* Claims about the CSV translators                                        *)
(***************************************************************************)
\* C10: each marker column counts on its own. A muscle row is included
\* exactly when column 7, 8 or 9 holds "1", a neuron row exactly when column
\* 5 holds "1", and a text-match row names the cell of a column, from the
\* initial cell column on, exactly when that column holds "1" or "2".
C10_MarkerColumnsIndependent ==
    /\ csvIn.translator = "Muscle"
       => \A i \in DOMAIN csvIn.rows :
             LET line == csvIn.rows[i]
             IN (\E c \in {7, 8, 9} : line[c] = "1")
                <=> <<"Muscle", upper(normalize_cell_name(line[0])), "">> \in csvOut
    /\ csvIn.translator = "Neuron"
       => \A i \in DOMAIN csvIn.rows :
             LET line == csvIn.rows[i]
             IN (line[5] = "1")
                <=> <<"Neuron", upper(normalize_cell_name(line[0])), "">> \in csvOut
    /\ csvIn.translator = "TextMatch"
       => \A i \in (SkippedLines + 2)..Len(csvIn.rows) :
             \A c \in 1..2 :
                LET row == csvIn.rows[i]
                IN (c >= csvIn.initcol /\ row[c] \in {"1", "2"})
                   <=> <<"appearsIn", row[0], HeaderRow[c]>> \in csvOut

\* C13: the text-match translator takes the row after 3 leading lines as
\* the header. A file that ends before that row gives an empty data context;
\* in a longer file the rows after the header, and only they, are read as
\* data.
C13_HeaderAfterThreeLines ==
    csvIn.translator = "TextMatch"
    => LET rows == csvIn.rows
           dataNames == {rows[i][0] : i \in (3 + 2)..Len(rows)}
       IN /\ Len(rows) < 3 + 1 => csvOut = {}
          /\ {t[2] : t \in {x \in csvOut : x[1] = "Channel"}} = dataNames
          /\ \A t \in csvOut :
                /\ t[2] \in dataNames
                /\ t[2] # LeadingLine[0] /\ t[2] # HeaderRow[0]
                /\ t[1] = "appearsIn" => t[3] \in {HeaderRow[c] : c \in 1..2}

\* a file with the leading lines, the header and two data rows was read
C13_Witness ==
    /\ csvIn.translator = "TextMatch"
    /\ Len(csvIn.rows) = 3 + 1 + 2
    /\ <<"Channel", "unc-1", "">> \in csvOut
    /\ \E t \in csvOut : t[1] = "appearsIn"

\* C14: for each record WormbaseIDSetter processes, the WormBase ID is
\* stated for every cell of the prior data context whose name is the
\* normalized cell name: as many statements as matches, none (and no error)
\* when nothing matches, nothing else, and the prior data context is left as
\* it was.
C14_IdForEveryMatch ==
    [][csvIn'.translator = "IDSetter"
       => /\ cells' = cells
          /\ \A i \in 2..Len(csvIn'.rows) :
                LET line == csvIn'.rows[i]
                    matches == {c \in cells :
                                  CellName(c) = normalize_cell_name(line.Cell)}
                IN Cardinality({t \in csvOut' :
                                  t[3] = line.WormBaseID /\ t[2] \in matches})
                   = Cardinality(matches)
          /\ \A t \in csvOut' :
                \E i \in 2..Len(csvIn'.rows) :
                    /\ t[1] = "wormbaseID"
                    /\ t[3] = csvIn'.rows[i].WormBaseID
                    /\ t[2] \in cells
                    /\ CellName(t[2]) = normalize_cell_name(csvIn'.rows[i].Cell)]_vars

\* a processed record named a cell stored twice, another one a cell that is
\* not stored
C14_Witness ==
    /\ csvIn.translator = "IDSetter"
    /\ cells = {"Muscle:VB1", "Neuron:VB1"}
    /\ Len(csvIn.rows) = 3
    /\ csvIn.rows[2].Cell = "VB1" /\ csvIn.rows[3].Cell = "vb01"
    /\ Cardinality(csvOut) = 2

(***************************************************************************)
(* Claims about the context merger                                         *)
(***************************************************************************)
Count(s, x) == Cardinality({i \in DOMAIN s : s[i] = x})

IsPermutation(s, t) ==
    /\ Len(s) = Len(t)
    /\ \A i \in DOMAIN s : Count(s, s[i]) = Count(t, s[i])

\* C1: translating the same non-empty inputs again in another order gives a
\* result that imports the same set of data contexts and the same set of
\* evidence contexts as before.
C1_OrderIndependent ==
    [][\A g \in GroupingNames :
          (/\ results[g].made
           /\ results'[g].made
           /\ IsPermutation(results[g].args, results'[g].args))
          => /\ results'[g].dimp = results[g].dimp
             /\ results'[g].eimp = results[g].eimp]_vars

\* a, b and c were merged in one order and then again in another one
C1_Witness ==
    /\ reordered
    /\ lastMerge.slot = "abc"
    /\ results["abc"].made
    /\ results["abc"].args # results["abc"].sources
    /\ Cardinality(results["abc"].dimp) = 3
    /\ \A g \in GroupingNames \ {"abc"} : ~results[g].made

Nestings == {"ab_c", "a_bc", "abc"}

\* C2 as stated: merge(merge(a,b),c), merge(a,merge(b,c)) and merge(a,b,c)
\* import the same set of data contexts and of evidence contexts.
C2_SameImports ==
    \A g, h \in Nestings :
        (results[g].made /\ results[h].made)
        => /\ results[g].dimp = results[h].dimp
           /\ results[g].eimp = results[h].eimp

GroupingOfOutput(t) == Groupings[t - NumLeaves]

RECURSIVE InputsReached(_, _)
\* The contexts of Translation Results that are not merge outputs, reached
\* from the result t along import edges of one kind ("data", "evidence").
InputsReached(t, kind) ==
    IF IsLeaf(t) THEN {<<t, kind>>}
    ELSE LET r == results[GroupingOfOutput(t)]
             imp == IF kind = "data" THEN r.dimp ELSE r.eimp
         IN UNION {InputsReached(c[1], kind) : c \in imp}

\* C2, amended: the three groupings reach, along their import edges, the same
\* set of data contexts and of evidence contexts of a, b and c, namely all of
\* them; the contexts they import directly differ by the intermediate results.
C2_SameInputsReached ==
    \A g \in Nestings : \A kind \in {"data", "evidence"} :
        results[g].made
        => InputsReached(OutputOf(g), kind) = {<<abc[i], kind>> : i \in 1..3}

C2_Witness ==
    /\ \A g \in Nestings : results[g].made
    /\ Cardinality({abc[i] : i \in 1..3}) = 3
    /\ results["ab_c"].dimp # results["abc"].dimp

\* C3: a translate call with no sources raises, creates no Translation Result
\* and adds no import edge to any context.
C3_NoSourcesFails ==
    [][lastMerge'.slot = "none"
       => /\ lastMerge'.err = "Exception"
          /\ results' = results]_vars

C3_Witness ==
    /\ lastMerge = [slot |-> "none", err |-> "Exception"]
    /\ results["ab"].made
    /\ ~results["none"].made

====
